---------------------------- MODULE Spec2Model ----------------------------
(***************************************************************************)
(* The kernel's dynamic memory allocator, src/kernel/dalloc.c: a fixed     *)
(* heap kept as an address-linked list of block headers, first-fit dalloc  *)
(* with block splitting, dfree with a coalescing pass, one spinlock.       *)
(*                                                                         *)
(* Memory is modelled as the block headers it holds, keyed by their        *)
(* address.  The bytes of a header that coalescing has absorbed are        *)
(* payload from then on, and leave the map.  Every CPU runs dalloc and     *)
(* dfree one source step at a time, so that calls interleave wherever the  *)
(* lock allows.                                                            *)
(***************************************************************************)
EXTENDS Integers, Sequences, FiniteSets, TLC

(* ------------------------------ constants ------------------------------ *)

\* #define ALIGNMENT_SIZE 16
ALIGNMENT_SIZE == 16

\* #define HEADER_SIZE 16
HEADER_SIZE == 16

\* The heap extent in alignment units (HEAP_SIZE comes from memlayout.h).
HeapUnits == 6

HEAP_SIZE == HeapUnits * ALIGNMENT_SIZE

\* The width of the C type unsigned.  It is 32 on the target; the model keeps
\* the arithmetic modulo 2^UnsignedBits with a narrower word, wide enough
\* that every heap size and offset is far from wrapping.
UnsignedBits == 9

UNSIGNED_MOD == 2 ^ UnsignedBits

\* The end of physical memory (memlayout.h): any 16-byte aligned address
\* above HEAP_SIZE, so that the heap base is aligned and is not 0.
PHYSTOP == 2 * HEAP_SIZE

NULL == 0

NoCpu == "none"

CPUS == {"cpu0", "cpu1"}

(* ------------------------- unsigned arithmetic ------------------------- *)

\* Addition of two unsigned values, as the C type computes it.
UAdd(a, b) == (a + b) % UNSIGNED_MOD

\* RoundUp with the rounding left out.
RoundUpNone(x) == x

\* (x + (ALIGNMENT_SIZE - 1)) & ~(ALIGNMENT_SIZE - 1) on unsigned x
RoundUp(x) ==
  LET y == UAdd(x, ALIGNMENT_SIZE - 1)
  IN  y - (y % ALIGNMENT_SIZE)

\* RequiredSize without the header: the request alone, rounded up.
RequiredSizeNoHeader(size) == RoundUp(size)

\* unsigned required_size = size + HEADER_SIZE, then rounded up
RequiredSize(size) == RoundUp(UAdd(size, HEADER_SIZE))

(* -------------------------------- state -------------------------------- *)

VARIABLES
  mem,            \* the headers in memory: address -> struct dheader
  start,          \* dmem.start
  lock,           \* dmem.lock: the CPU holding it, or NoCpu
  pc,             \* each CPU's position in dalloc or dfree
  size,           \* dalloc's parameter, per CPU
  required_size,  \* dalloc's local, per CPU
  curr,           \* the local curr of dalloc, dfree and coalesce_blocks
  block_header,   \* dfree's local, per CPU
  panicked,       \* "none", or the panic that halted the kernel
  live,           \* pointers returned by dalloc and not passed to dfree since
  misused,        \* some dfree was given a pointer that was not live
  pre,            \* the headers as they were when the lock was last acquired
  freed           \* the pointer last released by dfree, if no dalloc came since

vars == <<mem, start, lock, pc, size, required_size, curr, block_header,
          panicked, live, misused, pre, freed>>

\* struct dheader
Header(d, u, n) == [data_size |-> d, used |-> u, next |-> n]

\* The addresses at which a header can lie: the 16-byte slots of the heap.
HeaderAddrs == {PHYSTOP - HEAP_SIZE + k * ALIGNMENT_SIZE : k \in 0 .. HeapUnits - 1}

\* dinit(): one free block spanning the heap.
HeapInit ==
  /\ lock = NoCpu
  /\ start = PHYSTOP - HEAP_SIZE
  /\ mem = (PHYSTOP - HEAP_SIZE) :> Header(HEAP_SIZE - HEADER_SIZE, 0, NULL)

Init ==
  /\ HeapInit
  /\ pc = [c \in CPUS |-> "idle"]
  /\ size = [c \in CPUS |-> 0]
  /\ required_size = [c \in CPUS |-> 0]
  /\ curr = [c \in CPUS |-> NULL]
  /\ block_header = [c \in CPUS |-> NULL]
  /\ panicked = "none"
  /\ live = {}
  /\ misused = FALSE
  /\ pre = mem
  /\ freed = {}

(* ------------------------------ spinlock ------------------------------- *)

\* acquire(&dmem.lock): spins until the lock is free, then holds it.
Acquire(c) ==
  /\ lock = NoCpu
  /\ lock' = c

\* release(&dmem.lock)
Release(c) == lock' = NoCpu

\* panic(): the kernel halts; no CPU takes another step.
Panic(c, why) ==
  /\ panicked' = why
  /\ pc' = [pc EXCEPT ![c] = "panic"]

\* The locals of a call are dead once it has returned.
ClearLocals(c) ==
  /\ size' = [size EXCEPT ![c] = 0]
  /\ required_size' = [required_size EXCEPT ![c] = 0]
  /\ curr' = [curr EXCEPT ![c] = NULL]
  /\ block_header' = [block_header EXCEPT ![c] = NULL]

(* ------------------------------- dalloc -------------------------------- *)

\* The sizes callers pass: small ones, ones around the heap extent, and ones
\* near the top of the unsigned range.
SizeInputs ==
  {0, 1, HEAP_SIZE - 2 * HEADER_SIZE, HEAP_SIZE - HEADER_SIZE, HEAP_SIZE,
   UNSIGNED_MOD - 16, UNSIGNED_MOD - 1}

\* dalloc(size), up to the acquire: required_size is computed.
DallocCall(c, sz) ==
  /\ panicked = "none"
  /\ pc[c] = "idle"
  /\ size' = [size EXCEPT ![c] = sz]
  /\ required_size' = [required_size EXCEPT ![c] = RequiredSize(sz)]
  /\ pc' = [pc EXCEPT ![c] = "a_acquire"]
  /\ freed' = {}
  /\ UNCHANGED <<mem, start, lock, curr, block_header, panicked, live, misused, pre>>

\* acquire(&dmem.lock); curr = dmem.start;
DallocAcquire(c) ==
  /\ panicked = "none"
  /\ pc[c] = "a_acquire"
  /\ Acquire(c)
  /\ curr' = [curr EXCEPT ![c] = start]
  /\ pre' = mem
  /\ pc' = [pc EXCEPT ![c] = "a_scan"]
  /\ UNCHANGED <<mem, start, size, required_size, block_header, panicked, live, misused,
                 freed>>

\* Fits with > for >=: an exact fit is passed over.
FitsStrict(c) ==
  /\ mem[curr[c]].used = 0
  /\ mem[curr[c]].data_size > required_size[c]

\* if (!curr->used && curr->data_size >= required_size)
Fits(c) ==
  /\ mem[curr[c]].used = 0
  /\ mem[curr[c]].data_size >= required_size[c]

\* One turn of the while loop on a block that does not fit: curr = curr->next.
DallocScan(c) ==
  /\ panicked = "none"
  /\ pc[c] = "a_scan"
  /\ curr[c] # NULL
  /\ ~Fits(c)
  /\ curr' = [curr EXCEPT ![c] = mem[curr[c]].next]
  /\ UNCHANGED <<mem, start, lock, pc, size, required_size, block_header,
                 panicked, live, misused, pre, freed>>

\* The headers after the split of the block at a (lines 86-93), in the
\* order of the assignments: the new block's fields, then curr's.
Split(m, a, sz, req) ==
  LET new_block == a + req
      m1 == (new_block :> Header((m[a].data_size - req) % UNSIGNED_MOD,
                                 0, m[a].next)) @@ m
  IN  [m1 EXCEPT ![a].data_size = RoundUp(sz), ![a].next = new_block]

\* SplitNeeded with >= for >: an exact fit is split as well.
SplitNeededAlways(m, a, req) == m[a].data_size >= req

\* if (curr->data_size > required_size)
SplitNeeded(m, a, req) == m[a].data_size > req

\* The turn of the while loop that finds a fitting block: split it if it is
\* larger than required, mark it used.
DallocTake(c) ==
  /\ panicked = "none"
  /\ pc[c] = "a_scan"
  /\ curr[c] # NULL
  /\ Fits(c)
  /\ LET m1 == IF SplitNeeded(mem, curr[c], required_size[c])
                 THEN Split(mem, curr[c], size[c], required_size[c])
                 ELSE mem
     IN  mem' = [m1 EXCEPT ![curr[c]].used = 1]
  /\ pc' = [pc EXCEPT ![c] = "a_found"]
  /\ freed' = {}
  /\ UNCHANGED <<start, lock, size, required_size, curr, block_header,
                 panicked, live, misused, pre>>

\* (void*)(curr + 1): the address right after the header at a.
PayloadOf(a) == a + HEADER_SIZE

\* DallocReturn without the release before the return.
DallocReturnNoRelease(c) ==
  /\ panicked = "none"
  /\ pc[c] = "a_found"
  /\ live' = live \cup {PayloadOf(curr[c])}
  /\ pre' = mem
  /\ pc' = [pc EXCEPT ![c] = "idle"]
  /\ ClearLocals(c)
  /\ UNCHANGED <<mem, start, lock, panicked, misused, freed>>

\* release(&dmem.lock); return (void*)(curr + 1);
DallocReturn(c) ==
  /\ panicked = "none"
  /\ pc[c] = "a_found"
  /\ Release(c)
  /\ live' = live \cup {PayloadOf(curr[c])}
  /\ pre' = mem
  /\ pc' = [pc EXCEPT ![c] = "idle"]
  /\ ClearLocals(c)
  /\ UNCHANGED <<mem, start, panicked, misused, freed>>

\* DallocFail without the release before return 0.
DallocFailNoRelease(c) ==
  /\ panicked = "none"
  /\ pc[c] = "a_scan"
  /\ curr[c] = NULL
  /\ pc' = [pc EXCEPT ![c] = "idle"]
  /\ ClearLocals(c)
  /\ UNCHANGED <<mem, start, lock, panicked, live, misused, pre, freed>>

\* The scan ran off the list: release(&dmem.lock); return 0;
DallocFail(c) ==
  /\ panicked = "none"
  /\ pc[c] = "a_scan"
  /\ curr[c] = NULL
  /\ Release(c)
  /\ pre' = mem
  /\ pc' = [pc EXCEPT ![c] = "idle"]
  /\ ClearLocals(c)
  /\ UNCHANGED <<mem, start, panicked, live, misused, freed>>

(* -------------------------------- dfree -------------------------------- *)

\* Aligned pointers that callers pass to dfree whether or not they are live:
\* the payload of a block at the heap base, the payload of a block right
\* behind a header-only first block, and the end of the heap, where no
\* payload ever starts.
StrayAddrs ==
  {PHYSTOP - HEAP_SIZE + HEADER_SIZE, PHYSTOP - HEAP_SIZE + 2 * HEADER_SIZE, PHYSTOP}

\* The pointers callers pass to dfree: the live ones, the stray ones, and
\* live pointers off by one byte.
AddrInputs == live \cup StrayAddrs \cup {p + 1 : p \in live}

\* Misaligned that lets every header address pass.
MisalignedNever(h) == FALSE

\* if (((uint64)block_header) % ALIGNMENT_SIZE != 0)
Misaligned(h) == h % ALIGNMENT_SIZE # 0

\* dfree(addr), up to the acquire: the header address and its alignment check.
DfreeCall(c, addr) ==
  /\ panicked = "none"
  /\ pc[c] = "idle"
  /\ block_header' = [block_header EXCEPT ![c] = addr - HEADER_SIZE]
  /\ live' = live \ {addr}
  /\ misused' = (misused \/ addr \notin live)
  /\ IF Misaligned(addr - HEADER_SIZE)
       THEN Panic(c, "misaligned")
       ELSE /\ pc' = [pc EXCEPT ![c] = "f_acquire"]
            /\ UNCHANGED panicked
  /\ UNCHANGED <<mem, start, lock, size, required_size, curr, pre, freed>>

\* acquire(&dmem.lock); curr = dmem.start;
DfreeAcquire(c) ==
  /\ panicked = "none"
  /\ pc[c] = "f_acquire"
  /\ Acquire(c)
  /\ curr' = [curr EXCEPT ![c] = start]
  /\ pre' = mem
  /\ pc' = [pc EXCEPT ![c] = "f_scan"]
  /\ UNCHANGED <<mem, start, size, required_size, block_header, panicked, live, misused,
                 freed>>

\* One turn of the while loop on another header: curr = curr->next.
DfreeScan(c) ==
  /\ panicked = "none"
  /\ pc[c] = "f_scan"
  /\ curr[c] # NULL
  /\ curr[c] # block_header[c]
  /\ curr' = [curr EXCEPT ![c] = mem[curr[c]].next]
  /\ UNCHANGED <<mem, start, lock, pc, size, required_size, block_header,
                 panicked, live, misused, pre, freed>>

\* DfreeMark without the walk of coalesce_blocks: its curr is at the end.
DfreeMarkNoCoalesce(c) ==
  /\ panicked = "none"
  /\ pc[c] = "f_scan"
  /\ curr[c] # NULL
  /\ curr[c] = block_header[c]
  /\ mem' = [mem EXCEPT ![curr[c]].used = 0]
  /\ curr' = [curr EXCEPT ![c] = NULL]
  /\ pc' = [pc EXCEPT ![c] = "f_coalesce"]
  /\ UNCHANGED <<start, lock, size, required_size, block_header,
                 panicked, live, misused, pre, freed>>

\* The header is found: curr->used = 0, and coalesce_blocks() is entered
\* (its own curr starts at dmem.start).
DfreeMark(c) ==
  /\ panicked = "none"
  /\ pc[c] = "f_scan"
  /\ curr[c] # NULL
  /\ curr[c] = block_header[c]
  /\ mem' = [mem EXCEPT ![curr[c]].used = 0]
  /\ curr' = [curr EXCEPT ![c] = start]
  /\ pc' = [pc EXCEPT ![c] = "f_coalesce"]
  /\ UNCHANGED <<start, lock, size, required_size, block_header,
                 panicked, live, misused, pre, freed>>

\* while (curr != 0 && curr->next != 0)
CoalesceMore(c) == curr[c] # NULL /\ mem[curr[c]].next # NULL

\* BothFree without the test of the successor.
BothFreeCurrOnly(m, a) == m[a].used = 0

\* if (!curr->used && !curr->next->used)
BothFree(m, a) == m[a].used = 0 /\ m[m[a].next].used = 0

\* Merge that adds the successor's data_size without its header.
MergeNoHeader(m, a) ==
  LET n == m[a].next
      m1 == [m EXCEPT ![a].data_size = UAdd(m[a].data_size, m[n].data_size),
                      ![a].next = m[n].next]
  IN  IF n = a THEN m1 ELSE [x \in DOMAIN m \ {n} |-> m1[x]]

\* The headers after the block at a has absorbed its successor n, whose
\* header is no header any more.
Merge(m, a) ==
  LET n == m[a].next
      m1 == [m EXCEPT ![a].data_size = UAdd(m[a].data_size,
                                            UAdd(m[n].data_size, HEADER_SIZE)),
                      ![a].next = m[n].next]
  IN  IF n = a THEN m1 ELSE [x \in DOMAIN m \ {n} |-> m1[x]]

\* CoalesceNext moving on after a merge too.
CoalesceNextAlways(m, a) ==
  IF BothFree(m, a) THEN m[m[a].next].next ELSE m[a].next

\* Where the walk stands after one turn on the block at a: on a itself
\* after a merge, on its successor otherwise.
CoalesceNext(m, a) == IF BothFree(m, a) THEN a ELSE m[a].next

\* One turn of the loop of coalesce_blocks(): merge, or move on.
CoalesceStep(c) ==
  /\ panicked = "none"
  /\ pc[c] = "f_coalesce"
  /\ CoalesceMore(c)
  /\ mem' = IF BothFree(mem, curr[c]) THEN Merge(mem, curr[c]) ELSE mem
  /\ curr' = [curr EXCEPT ![c] = CoalesceNext(mem, curr[c])]
  /\ UNCHANGED <<start, lock, pc, size, required_size, block_header,
                 panicked, live, misused, pre, freed>>

\* coalesce_blocks() returns; release(&dmem.lock); return;
DfreeReturn(c) ==
  /\ panicked = "none"
  /\ pc[c] = "f_coalesce"
  /\ ~CoalesceMore(c)
  /\ Release(c)
  /\ pre' = mem
  /\ pc' = [pc EXCEPT ![c] = "idle"]
  /\ ClearLocals(c)
  /\ freed' = IF pre[block_header[c]].used = 1
               THEN {PayloadOf(block_header[c])}
               ELSE freed
  /\ UNCHANGED <<mem, start, panicked, live, misused>>

\* DfreeInvalid that returns after the release instead of panicking.
DfreeInvalidSilent(c) ==
  /\ panicked = "none"
  /\ pc[c] = "f_scan"
  /\ curr[c] = NULL
  /\ Release(c)
  /\ pre' = mem
  /\ pc' = [pc EXCEPT ![c] = "idle"]
  /\ ClearLocals(c)
  /\ UNCHANGED <<mem, start, panicked, live, misused, freed>>

\* DfreeInvalid without the release before the panic.
DfreeInvalidNoRelease(c) ==
  /\ panicked = "none"
  /\ pc[c] = "f_scan"
  /\ curr[c] = NULL
  /\ pre' = mem
  /\ Panic(c, "invalid")
  /\ UNCHANGED <<mem, start, lock, size, required_size, curr, block_header,
                 live, misused, freed>>

\* The scan ran off the list: release(&dmem.lock); panic("dfree: Invalid address.");
DfreeInvalid(c) ==
  /\ panicked = "none"
  /\ pc[c] = "f_scan"
  /\ curr[c] = NULL
  /\ Release(c)
  /\ pre' = mem
  /\ Panic(c, "invalid")
  /\ UNCHANGED <<mem, start, size, required_size, curr, block_header, live, misused,
                 freed>>

(* ------------------------- reading the heap ---------------------------- *)

\* The addresses met by following next from a, up to the end of the list or
\* the first address met twice.
RECURSIVE ChainFrom(_, _, _)
ChainFrom(m, a, seen) ==
  IF a = NULL \/ a \in seen \/ a \notin DOMAIN m
    THEN <<>>
    ELSE <<a>> \o ChainFrom(m, m[a].next, seen \cup {a})

\* The block list of the heap m, from dmem.start.
Chain(m) == ChainFrom(m, start, {})

Blocks(m) == {Chain(m)[i] : i \in 1 .. Len(Chain(m))}

\* The list ends with next = 0 (it neither loops nor leaves the headers).
EndsInNull(m) ==
  /\ Chain(m) # <<>>
  /\ m[Chain(m)[Len(Chain(m))]].next = NULL

RECURSIVE SumSizes(_, _)
SumSizes(m, ch) ==
  IF ch = <<>> THEN 0
  ELSE HEADER_SIZE + m[Head(ch)].data_size + SumSizes(m, Tail(ch))

\* The end of the block at a: its address plus header plus payload.
BlockEnd(m, a) == a + HEADER_SIZE + m[a].data_size

\* The least element of a set of addresses or indices.
Lowest(S) == CHOOSE a \in S : \A b \in S : a <= b

\* The heap as dinit() leaves it.
FreshHeap == (PHYSTOP - HEAP_SIZE) :> Header(HEAP_SIZE - HEADER_SIZE, 0, NULL)

\* No call is between its acquire and its release.
AtRest == lock = NoCpu

(* -------------------------------- claims ------------------------------- *)

\* C1 (conservation): whenever no call is in progress on the heap, the list
\* from dmem.start ends, and HEADER_SIZE + data_size summed over its blocks
\* is HEAP_SIZE.
C1_Conservation ==
  AtRest => /\ EndsInNull(mem)
            /\ SumSizes(mem, Chain(mem)) = HEAP_SIZE

\* C2 (layout): whenever no call is in progress, the list starts at the heap
\* base, each block ends where its successor starts (so addresses strictly
\* increase and no two blocks overlap), and the last block ends at the end
\* of the heap.
C2_Layout ==
  AtRest =>
    LET ch == Chain(mem)
    IN  /\ ch # <<>>
        /\ ch[1] = PHYSTOP - HEAP_SIZE
        /\ \A i \in 1 .. Len(ch) :
             /\ mem[ch[i]].next = (IF i < Len(ch) THEN ch[i + 1] ELSE NULL)
             /\ BlockEnd(mem, ch[i]) = (IF i < Len(ch) THEN ch[i + 1] ELSE PHYSTOP)
        /\ \A i, j \in 1 .. Len(ch) :
             i < j => /\ ch[i] < ch[j]
                      /\ BlockEnd(mem, ch[i]) <= ch[j]

\* C3 (alignment): with the heap base 16-byte aligned, every header address,
\* every data_size and every pointer dalloc returns or has returned is a
\* multiple of 16, in every state.
C3_Alignment ==
  /\ \A a \in DOMAIN mem :
       /\ a % ALIGNMENT_SIZE = 0
       /\ mem[a].data_size % ALIGNMENT_SIZE = 0
  /\ \A p \in live : p % ALIGNMENT_SIZE = 0
  /\ \A c \in CPUS :
       pc[c] = "a_found" => PayloadOf(curr[c]) % ALIGNMENT_SIZE = 0

\* A heap split into three blocks, with a pointer handed out and another
\* about to be.
C3_Witness ==
  /\ Len(Chain(mem)) >= 3
  /\ live # {}
  /\ \E c \in CPUS : pc[c] = "a_found" /\ curr[c] # start

(* ------------------ the calls as sequential operations ----------------- *)

\* dalloc(sz) run alone on the headers m: the headers it leaves and the
\* pointer it returns.
SeqDalloc(m, sz) ==
  LET ch == Chain(m)
      cand == {i \in 1 .. Len(ch) :
                 m[ch[i]].used = 0 /\ m[ch[i]].data_size >= RequiredSize(sz)}
  IN  IF cand = {}
        THEN [mem |-> m, ret |-> NULL]
        ELSE LET a == ch[Lowest(cand)]
                 m1 == IF SplitNeeded(m, a, RequiredSize(sz))
                         THEN Split(m, a, sz, RequiredSize(sz))
                         ELSE m
             IN  [mem |-> [m1 EXCEPT ![a].used = 1], ret |-> PayloadOf(a)]

\* coalesce_blocks() run from the block at a, for at most n turns.
RECURSIVE SeqCoalesce(_, _, _)
SeqCoalesce(m, a, n) ==
  IF n = 0 \/ a = NULL \/ m[a].next = NULL
    THEN m
    ELSE SeqCoalesce(IF BothFree(m, a) THEN Merge(m, a) ELSE m,
                     CoalesceNext(m, a), n - 1)

\* dfree of the header at h run alone on the headers m, h being in the list.
SeqDfree(m, h) ==
  SeqCoalesce([m EXCEPT ![h].used = 0], start, 2 * Cardinality(DOMAIN m))

\* Each call leaves the headers, and returns, what it would if it had run
\* alone on the headers it found when it took the lock; and calls take the
\* heap over from one another unchanged.
OpsAtomic ==
  /\ AtRest => pre = mem
  /\ \A c \in CPUS :
       /\ pc[c] = "a_found" =>
            /\ mem = SeqDalloc(pre, size[c]).mem
            /\ PayloadOf(curr[c]) = SeqDalloc(pre, size[c]).ret
       /\ (pc[c] = "a_scan" /\ curr[c] = NULL) =>
            /\ mem = SeqDalloc(pre, size[c]).mem
            /\ SeqDalloc(pre, size[c]).ret = NULL
       /\ (pc[c] = "f_coalesce" /\ ~CoalesceMore(c)) =>
            /\ block_header[c] \in Blocks(pre)
            /\ mem = SeqDfree(pre, block_header[c])
       /\ (pc[c] = "f_scan" /\ curr[c] = NULL) =>
            /\ block_header[c] \notin Blocks(pre)
            /\ mem = pre

\* As long as dfree is only given live pointers, dalloc never returns a
\* pointer that is live, nor the same pointer to two callers.
NoDoubleHandOut ==
  ~misused =>
    \A c \in CPUS :
      pc[c] = "a_found" =>
        /\ PayloadOf(curr[c]) \notin live
        /\ \A d \in CPUS \ {c} : pc[d] = "a_found" => curr[d] # curr[c]

\* C4 (atomicity): concurrent dalloc and dfree calls take effect one whole
\* call at a time, no pointer is handed out twice, and conservation, layout
\* and alignment hold whenever the lock is free.
C4_Atomicity ==
  /\ OpsAtomic
  /\ NoDoubleHandOut
  /\ C1_Conservation
  /\ C2_Layout
  /\ C3_Alignment

\* The blocks of the list m that dalloc(sz) can take.
Candidates(m, sz) ==
  {a \in Blocks(m) : m[a].used = 0 /\ m[a].data_size >= RequiredSize(sz)}

\* dalloc of CPU c returns a pointer in this step.
ReturnsPointer(c) == pc[c] = "a_found" /\ pc'[c] = "idle"

\* dalloc of CPU c returns 0 in this step.
ReturnsNone(c) == pc[c] = "a_scan" /\ pc'[c] = "idle"

\* C5 (first fit): a dalloc(size) that returns a pointer has marked used the
\* lowest-address block that was free with data_size >= required_size when
\* the call took the lock, and returns the address right after that block's
\* header; a dalloc that returns 0 found no such block.  (required_size is
\* the unsigned value of lines 70-73.)
C5_FirstFit ==
  [][\A c \in CPUS :
       LET cand == Candidates(pre, size[c])
       IN  /\ ReturnsPointer(c) =>
                /\ cand # {}
                /\ curr[c] = Lowest(cand)
                /\ mem'[Lowest(cand)].used = 1
                /\ live' = live \cup {Lowest(cand) + HEADER_SIZE}
           /\ ReturnsNone(c) => cand = {}]_vars

\* A dalloc of a size below the heap extent is about to return a block, the
\* list holding a later free block that fits as well.
C5_Witness ==
  \E c \in CPUS :
    /\ pc[c] = "a_found"
    /\ size[c] < HEAP_SIZE
    /\ Cardinality(Candidates(pre, size[c])) >= 2

\* C6 (out of memory has no side effects): when dalloc returns 0 the headers
\* are what they were when the call took the lock, no pointer has been
\* handed out, and the lock is free.
C6_FailureNoEffect ==
  [][\A c \in CPUS :
       ReturnsNone(c) => /\ mem = pre
                         /\ mem' = pre
                         /\ live' = live
                         /\ lock' = NoCpu]_vars

\* A dalloc that has scanned a list of three blocks to its end, about to
\* return 0.
C6_Witness ==
  \E c \in CPUS :
    /\ pc[c] = "a_scan"
    /\ curr[c] = NULL
    /\ lock = c
    /\ Len(Chain(mem)) >= 3

\* C7 (over-large requests): a dalloc(size) with size >= HEAP_SIZE never
\* finds a block, and leaves the headers as they were when it took the lock.
C7_OverLarge ==
  \A c \in CPUS :
    (pc[c] \in {"a_scan", "a_found"} /\ size[c] >= HEAP_SIZE) =>
      /\ pc[c] # "a_found"
      /\ mem = pre

\* C8 (full reclaim): when every pointer dalloc has returned has been given
\* to dfree, once, and every call has returned, the heap is again the single
\* free block of dinit().
C8_FullReclaim ==
  ((\A c \in CPUS : pc[c] = "idle") /\ live = {} /\ ~misused) =>
    mem = FreshHeap

\* The dfree of the last live pointer, on a heap that had three blocks or
\* more, is about to return with the heap back to one free block.
C8_Witness ==
  \E c \in CPUS :
    /\ pc[c] = "f_coalesce"
    /\ ~CoalesceMore(c)
    /\ Len(Chain(pre)) >= 3
    /\ live = {}
    /\ ~misused
    /\ mem = FreshHeap

\* The header at x is written in this step: it appears, or its fields change.
Written(x) == x \in DOMAIN mem' /\ (x \notin DOMAIN mem \/ mem'[x] # mem[x])

\* This step is dfree's curr->used = 0 on the header at a.
Releases(a) ==
  \E c \in CPUS :
    pc[c] = "f_scan" /\ curr[c] = a /\ block_header[c] = a /\ pc'[c] = "f_coalesce"

\* C9 (frame): a used block's header stays as it is, and no header is
\* written inside its payload, in every step but the dfree of that block;
\* every header written lies in a block that is free, or is the header
\* being released.
C9_Frame ==
  [][/\ \A a \in DOMAIN mem :
          (mem[a].used = 1 /\ ~Releases(a)) =>
            /\ a \in DOMAIN mem'
            /\ mem'[a] = mem[a]
            /\ \A x \in DOMAIN mem' :
                 (PayloadOf(a) <= x /\ x < BlockEnd(mem, a)) => ~Written(x)
     /\ \A x \in DOMAIN mem' :
          Written(x) =>
            \/ Releases(x)
            \/ \E b \in DOMAIN mem :
                 mem[b].used = 0 /\ b <= x /\ x < BlockEnd(mem, b)]_vars

\* Between two used blocks a free block is being merged by coalesce_blocks
\* (a header in a free block is written while other blocks are used).
C9_Witness ==
  \E c \in CPUS :
    /\ pc[c] = "f_coalesce"
    /\ CoalesceMore(c)
    /\ BothFree(mem, curr[c])
    /\ \E a \in Blocks(mem) : mem[a].used = 1 /\ a < curr[c]
    /\ \E a \in Blocks(mem) : mem[a].used = 1 /\ a > curr[c]

\* The heap after a dalloc that took the whole initial block, unsplit.
WholeUsed == (PHYSTOP - HEAP_SIZE) :> Header(HEAP_SIZE - HEADER_SIZE, 1, NULL)

\* What C10 says of dalloc(n): on the fresh heap it finds the block and
\* takes it whole; on the heap so filled it finds none.
OnceOnly(n) ==
  \A c \in CPUS :
    (pc[c] \in {"a_scan", "a_found"} /\ lock = c /\ size[c] = n) =>
      /\ pre = FreshHeap => /\ curr[c] # NULL
                            /\ pc[c] = "a_found" => mem = WholeUsed
      /\ pre = WholeUsed => pc[c] # "a_found"

\* C10 as stated: on the fresh heap dalloc(HEAP_SIZE - HEADER_SIZE) succeeds
\* without a split, and a second identical call returns 0.
C10_Original == OnceOnly(HEAP_SIZE - HEADER_SIZE)

\* C10 amended: on the fresh heap dalloc(HEAP_SIZE - HEADER_SIZE) returns 0;
\* it is dalloc(HEAP_SIZE - 2 * HEADER_SIZE) that succeeds without a split,
\* and a second identical call returns 0.
C10_Amended ==
  /\ OnceOnly(HEAP_SIZE - 2 * HEADER_SIZE)
  /\ \A c \in CPUS :
       (pc[c] \in {"a_scan", "a_found"} /\ lock = c
          /\ size[c] = HEAP_SIZE - HEADER_SIZE /\ pre = FreshHeap) =>
         pc[c] # "a_found"

\* The second dalloc(HEAP_SIZE - 2 * HEADER_SIZE) has run off the list of the
\* one used block the first call left.
C10_Witness ==
  \E c \in CPUS :
    /\ pc[c] = "a_scan"
    /\ curr[c] = NULL
    /\ lock = c
    /\ size[c] = HEAP_SIZE - 2 * HEADER_SIZE
    /\ pre = WholeUsed

\* A free block of the heap at the acquire has exactly the size dalloc of
\* CPU c requires.
ExactFitExists(c) ==
  \E a \in Blocks(pre) :
    pre[a].used = 0 /\ pre[a].data_size = RequiredSize(size[c])

\* C11 as stated: a dalloc whose required_size equals the data_size of some
\* free block of the list leaves the number of blocks unchanged.
C11_Original ==
  \A c \in CPUS :
    (pc[c] = "a_found" /\ ExactFitExists(c)) =>
      Len(Chain(mem)) = Len(Chain(pre))

\* C11 amended: a dalloc whose required_size equals the data_size of the
\* block it selects (the lowest-address free block that is large enough)
\* changes nothing but that block's used flag, so the number of blocks is
\* unchanged.
C11_NoSplitOnExactFit ==
  \A c \in CPUS :
    (pc[c] = "a_found" /\ pre[curr[c]].data_size = RequiredSize(size[c])) =>
      /\ mem = [pre EXCEPT ![curr[c]].used = 1]
      /\ Len(Chain(mem)) = Len(Chain(pre))

\* A dalloc of a size below the heap extent has taken an exactly fitting
\* block out of a list of three or more.
C11_Witness ==
  \E c \in CPUS :
    /\ pc[c] = "a_found"
    /\ size[c] < HEAP_SIZE
    /\ pre[curr[c]].data_size = RequiredSize(size[c])
    /\ Len(Chain(pre)) >= 3

\* CPU c enters dfree in this step.
EntersDfree(c) == pc[c] = "idle" /\ pc'[c] \in {"f_acquire", "panic"}

\* C12: a dfree whose header address is not a multiple of 16 panics with the
\* misaligned-address message in its first step, the lock is left as it was
\* and no header is changed; no dfree with such an address gets to the
\* acquire.
C12_MisalignedRelease ==
  [][\A c \in CPUS :
       (EntersDfree(c) /\ block_header'[c] % ALIGNMENT_SIZE # 0) =>
         /\ pc'[c] = "panic"
         /\ panicked' = "misaligned"
         /\ lock' = lock
         /\ lock # c
         /\ mem' = mem /\ start' = start]_vars

\* dfree of a live pointer plus one byte has panicked.
C12_Witness ==
  \E c \in CPUS :
    /\ pc[c] = "panic"
    /\ panicked = "misaligned"
    /\ block_header[c] + HEADER_SIZE - 1 \in live

\* C13: a dfree whose (aligned) header address is not the address of a header
\* of the list it scans never marks a block: its scan either goes on or ends
\* in the invalid-address panic, and at that panic the lock, held until then,
\* has been released and every header is as it was at the acquire.
C13_UnknownRelease ==
  [][\A c \in CPUS :
       (pc[c] = "f_scan" /\ block_header[c] \notin Blocks(pre)) =>
         /\ mem' = mem
         /\ \/ pc'[c] = "f_scan"
            \/ /\ pc'[c] = "panic"
               /\ panicked' = "invalid"
               /\ lock = c /\ lock' = NoCpu
               /\ mem = pre]_vars

\* dfree of an aligned address that heads no block of a list of two or more
\* has panicked.
C13_Witness ==
  \E c \in CPUS :
    /\ pc[c] = "panic"
    /\ panicked = "invalid"
    /\ block_header[c] % ALIGNMENT_SIZE = 0
    /\ block_header[c] \notin Blocks(mem)
    /\ Len(Chain(mem)) >= 2

\* In this step CPU c leaves a dfree of the pointer that a dfree released
\* last, no dalloc having been called since.
EndsSecondRelease(c) ==
  /\ pc[c] \in {"f_scan", "f_coalesce"}
  /\ PayloadOf(block_header[c]) \in freed
  /\ pc'[c] \notin {"f_scan", "f_coalesce"}

\* C14 as stated: a second dfree of a pointer, with no dalloc in between,
\* finds the header in the list, returns without a panic and leaves every
\* header as it was.
C14_Original ==
  [][\A c \in CPUS :
       EndsSecondRelease(c) =>
         /\ block_header[c] \in Blocks(pre)
         /\ pc'[c] = "idle" /\ panicked' = "none"
         /\ mem' = pre]_vars

\* C14 amended: a second dfree of a pointer, with no dalloc in between,
\* leaves every header as it was; it returns without a panic if the header is
\* still in the list, and panics with the invalid-address message if
\* coalescing has absorbed the header into the free block before it.
C14_DoubleRelease ==
  [][\A c \in CPUS :
       EndsSecondRelease(c) =>
         /\ mem' = pre
         /\ IF block_header[c] \in Blocks(pre)
              THEN pc'[c] = "idle" /\ panicked' = "none"
              ELSE pc'[c] = "panic" /\ panicked' = "invalid"]_vars

\* A second dfree of a pointer has panicked: its header is gone from the list.
C14_Witness ==
  \E c \in CPUS :
    /\ pc[c] = "panic"
    /\ panicked = "invalid"
    /\ PayloadOf(block_header[c]) \in freed

\* A second dfree of a pointer is about to return: its header is in the list.
C14_WitnessNoOp ==
  \E c \in CPUS :
    /\ pc[c] = "f_coalesce"
    /\ ~CoalesceMore(c)
    /\ PayloadOf(block_header[c]) \in freed
    /\ Len(Chain(mem)) >= 2

\* C15 (split arithmetic): when dalloc(size) has selected the block at a with
\* data_size D above R = required_size, that block is used with data_size
\* round_up(size, 16) and next a + R; at a + R is a new free block with
\* data_size D - R and the selected block's old next; every other header is
\* as it was.
C15_SplitArithmetic ==
  \A c \in CPUS :
    (pc[c] = "a_found" /\ pre[curr[c]].data_size > RequiredSize(size[c])) =>
      LET a == curr[c]
          R == RequiredSize(size[c])
          n == a + R
      IN  /\ mem[a] = Header(RoundUp(size[c]), 1, n)
          /\ n \notin DOMAIN pre
          /\ DOMAIN mem = DOMAIN pre \cup {n}
          /\ mem[n] = Header(pre[a].data_size - R, 0, pre[a].next)
          /\ \A b \in DOMAIN pre \ {a} : mem[b] = pre[b]

(* ------------------- coalesce_blocks on any block list ------------------ *)

\* The heap address of the 16-byte slot k.
SlotAddr(k) == PHYSTOP - HEAP_SIZE + k * ALIGNMENT_SIZE

\* The well-formed list whose blocks start at slot 0 and at the slots in
\* cuts, with the used flags that flags gives the slots.
ListOf(cuts, flags) ==
  LET heads == {0} \cup cuts
      after(k) == Lowest({j \in cuts \cup {HeapUnits} : j > k})
  IN  [a \in {SlotAddr(k) : k \in heads} |->
         LET k == CHOOSE j \in heads : SlotAddr(j) = a
         IN  Header((after(k) - k) * ALIGNMENT_SIZE - HEADER_SIZE, flags[k],
                    IF after(k) = HeapUnits THEN NULL ELSE SlotAddr(after(k)))]

\* Every well-formed list on the heap, with every pattern of used flags.
WellFormedLists ==
  {ListOf(cuts, flags) : cuts \in SUBSET (1 .. HeapUnits - 1),
                         flags \in [0 .. HeapUnits - 1 -> {0, 1}]}

\* coalesce_blocks is entered, under the lock, on any well-formed list.
CoalesceInit ==
  /\ mem \in WellFormedLists
  /\ start = PHYSTOP - HEAP_SIZE
  /\ lock = "cpu0"
  /\ pc = [c \in CPUS |-> IF c = "cpu0" THEN "f_coalesce" ELSE "idle"]
  /\ size = [c \in CPUS |-> 0]
  /\ required_size = [c \in CPUS |-> 0]
  /\ curr = [c \in CPUS |-> IF c = "cpu0" THEN start ELSE NULL]
  /\ block_header = [c \in CPUS |-> IF c = "cpu0" THEN start ELSE NULL]
  /\ panicked = "none"
  /\ live = {}
  /\ misused = FALSE
  /\ pre = mem
  /\ freed = {}

CoalesceOnly == \E c \in CPUS : CoalesceStep(c) \/ DfreeReturn(c)

CoalesceSpec == CoalesceInit /\ [][CoalesceOnly]_vars

\* coalesce_blocks of CPU c has left its loop.
CoalesceDone(c) == pc[c] = "f_coalesce" /\ ~CoalesceMore(c)

\* The blocks of the list pre that lie in the block of mem at f.
RunOf(f) ==
  SelectSeq(Chain(pre), LAMBDA b : f <= b /\ b < BlockEnd(mem, f))

\* C16: when coalesce_blocks, entered on any well-formed list, has left its
\* loop, no block and its successor are both free; every free block stands
\* for a run of free blocks of the entry list, starting at the run's first
\* block and as large as the run, and every free block of the entry list is
\* in such a run; every used block has its address, data_size and flag.
C16_CoalesceComplete ==
  \A c \in CPUS :
    CoalesceDone(c) =>
      /\ \A a \in Blocks(mem) :
           mem[a].next # NULL => ~BothFree(mem, a)
      /\ \A f \in Blocks(mem) :
           mem[f].used = 0 =>
             /\ f \in Blocks(pre)
             /\ \A i \in 1 .. Len(RunOf(f)) : pre[RunOf(f)[i]].used = 0
             /\ SumSizes(pre, RunOf(f)) = HEADER_SIZE + mem[f].data_size
      /\ \A a \in Blocks(pre) :
           IF pre[a].used = 1
             THEN /\ a \in Blocks(mem)
                  /\ mem[a].data_size = pre[a].data_size
                  /\ mem[a].used = 1
             ELSE \E f \in Blocks(mem) :
                    mem[f].used = 0 /\ f <= a /\ a < BlockEnd(mem, f)

\* coalesce_blocks has left its loop on a list that had two separate runs of
\* free blocks, one of them three blocks long or longer.
C16_Witness ==
  \E c \in CPUS :
    /\ CoalesceDone(c)
    /\ \E f, g \in Blocks(mem) :
         /\ f # g
         /\ mem[f].used = 0 /\ mem[g].used = 0
         /\ Len(RunOf(f)) >= 3 /\ Len(RunOf(g)) >= 2

(* ------------------------------ the lock -------------------------------- *)

\* The positions of dalloc, dfree and coalesce_blocks at which the list or a
\* header is read or written.
InHeap == {"a_scan", "a_found", "f_scan", "f_coalesce"}

\* A CPU is at a position that touches the heap exactly when it holds the
\* lock; a CPU about to acquire the lock, or in no call, does not hold it.
LockHeld == \A c \in CPUS : (pc[c] \in InHeap) <=> (lock = c)

\* Headers change only in steps of the CPU that holds the lock; a call
\* returns by a step that gives up the lock its CPU held.
LockSteps ==
  /\ (mem' # mem \/ start' # start) => (lock # NoCpu /\ lock' = lock)
  /\ \A c \in CPUS :
       (pc[c] \in InHeap /\ pc'[c] = "idle") => (lock = c /\ lock' = NoCpu)

\* C17 (lock discipline): the list and the headers are read and written only
\* by the CPU holding dmem.lock; no CPU is about to acquire a lock it holds;
\* every return releases the lock, which is free when no call is between its
\* acquire and its release.
C17_LockDiscipline == []LockHeld /\ [][LockSteps]_vars

\* One CPU is in coalesce_blocks under the lock while the other waits at its
\* acquire.
C17_Witness ==
  \E c, d \in CPUS :
    /\ pc[c] = "f_coalesce" /\ lock = c /\ CoalesceMore(c)
    /\ pc[d] \in {"a_acquire", "f_acquire"}

(* --------------------------- coalesced at rest --------------------------- *)

\* No block of the list m and its successor are both free.
NoAdjacentFree(m) ==
  \A a \in Blocks(m) : m[a].next # NULL => ~BothFree(m, a)

\* The free blocks of the list m.
FreeBlocks(m) == {a \in Blocks(m) : m[a].used = 0}

\* A dalloc that returns none found a list without two free neighbours, in
\* which no free block has the data_size the request requires.
NoneOnlyWhenNoRoom ==
  \A c \in CPUS :
    ReturnsNone(c) =>
      /\ NoAdjacentFree(pre)
      /\ \A a \in FreeBlocks(pre) : pre[a].data_size < RequiredSize(size[c])

\* C19 (fully coalesced at rest): whenever the lock is free no block and its
\* successor are both free, so every free block is a maximal free extent; a
\* dalloc returns none only if none of them has the required_size of the
\* request.
C19_CoalescedAtRest ==
  [](AtRest => NoAdjacentFree(mem)) /\ [][NoneOnlyWhenNoRoom]_vars

\* A dalloc of a size below the heap extent is about to return none on a
\* list with two free blocks apart from each other.
C19_Witness ==
  \E c \in CPUS :
    /\ pc[c] = "a_scan" /\ curr[c] = NULL
    /\ size[c] < HEAP_SIZE
    /\ Cardinality(FreeBlocks(mem)) >= 2
    /\ EndsInNull(mem)

(* ------------------------------- capacity -------------------------------- *)

\* C20 (capacity): the block dalloc(size) has marked used has a data_size of
\* at least size, so the caller's range [p, p + size) lies inside the heap
\* region and inside that block, and holds no other block's header.
C20_Capacity ==
  \A c \in CPUS :
    pc[c] = "a_found" =>
      LET a == curr[c]
          p == PayloadOf(a)
      IN  /\ mem[a].data_size >= size[c]
          /\ p + size[c] <= BlockEnd(mem, a)
          /\ p + size[c] <= PHYSTOP
          /\ \A b \in DOMAIN mem \ {a} : ~(p <= b /\ b < p + size[c])

(* ---------------------------- specification ---------------------------- *)

Next ==
  \E c \in CPUS :
    \/ \E sz \in SizeInputs : DallocCall(c, sz)
    \/ DallocAcquire(c)
    \/ DallocScan(c)
    \/ DallocTake(c)
    \/ DallocReturn(c)
    \/ DallocFail(c)
    \/ \E addr \in AddrInputs : DfreeCall(c, addr)
    \/ DfreeAcquire(c)
    \/ DfreeScan(c)
    \/ DfreeMark(c)
    \/ CoalesceStep(c)
    \/ DfreeReturn(c)
    \/ DfreeInvalid(c)

Spec == Init /\ [][Next]_vars

(* ----------------------------- termination ------------------------------ *)

\* A step of CPU c that takes the lock.
TakesLock(c) == DallocAcquire(c) \/ DfreeAcquire(c)

\* A step of CPU c between its acquire and its return or panic.
Proceeds(c) ==
  \/ DallocScan(c) \/ DallocTake(c) \/ DallocReturn(c) \/ DallocFail(c)
  \/ DfreeScan(c) \/ DfreeMark(c) \/ CoalesceStep(c) \/ DfreeReturn(c)
  \/ DfreeInvalid(c)

\* Every CPU in a call keeps running, and the lock is fair: a CPU that finds
\* the lock free again and again gets it.
FairSpec ==
  /\ Init /\ [][Next]_vars
  /\ \A c \in CPUS : WF_vars(Proceeds(c)) /\ SF_vars(TakesLock(c))

\* C18 (termination): with a fair lock, every call of dalloc or dfree
\* returns, or the kernel panics.
C18_Termination ==
  \A c \in CPUS :
    (pc[c] \notin {"idle", "panic"}) ~> (pc[c] = "idle" \/ panicked # "none")

=============================================================================
